---- MODULE Spec2Model ----
(***************************************************************************)
(* A model of src/src/ast_dump.py: the recursive formatter ast_dump.       *)
(*                                                                         *)
(*   def ast_dump(s, indent=None, depth=0):                                *)
(*       if type(s) == list:                                               *)
(*           l = []                                                        *)
(*           for i in s:                                                   *)
(*               l.append(ast_dump(i, indent, depth=depth+1))              *)
(*           return '[' + ', '.join(l) + ']'                               *)
(*       return ast.dump(s, indent=indent)                                 *)
(*                                                                         *)
(* The interpreter's call stack is explicit; list objects live in a heap   *)
(* (the input's lists and the call-local lists l), so aliasing and         *)
(* mutation are expressible.  ast.dump is the environment: a deterministic *)
(* function whose outcome for each (node, indent) is chosen the first time *)
(* it is called and remembered.                                            *)
(***************************************************************************)
EXTENDS Integers, Sequences, FiniteSets, TLC

\* Bound: number of objects (leaves and lists) of the input tree.
MaxNodes == 4
\* Bound: the same, for the inputs of callers that run as threads.
MaxThreadNodes == 3

\* Two top-level invocations on the same input (callers of ast_dump).
Callers == {1, 2}

\* Values a caller passes for indent (line 5: default None) and for depth
\* (default 0), the recursion counter: an integer, unbounded in Python.
IndentArgs == {"None", "2"}
DepthArgs == {0, 3}
\* The first caller leaves depth at its default, the second passes any value.
DepthChoices == {[c \in Callers |-> IF c = 1 THEN 0 ELSE d] : d \in DepthArgs}

\* Failures the rendering primitive may raise.
PrimErrors == {"TypeError", "RecursionError"}

(***************************************************************************)
(* Python values.  A nested value [type, id, items] describes an input;    *)
(* only type "list" is the built-in list.                                  *)
(***************************************************************************)
Ast(n) == [type |-> "AST", id |-> n, items |-> <<>>]
Scalar == [type |-> "int", id |-> 0, items |-> <<>>]
TupleVal == [type |-> "tuple", id |-> 0, items |-> <<Ast(1)>>]
ListSubVal == [type |-> "listsub", id |-> 0, items |-> <<Scalar>>]
ListVal(its) == [type |-> "list", id |-> 0, items |-> its]

\* The values that are not lists: as elements, and (the scalar too) as the input itself.
Atoms == {Ast(1), Ast(2), TupleVal, ListSubVal}

RECURSIVE Trees(_), Forests(_)
\* All inputs with exactly n objects.
Trees(n) ==
    (IF n = 1 THEN Atoms ELSE {}) \cup {ListVal(f) : f \in Forests(n - 1)}
\* All sequences of inputs with m objects in total.
Forests(m) ==
    IF m = 0 THEN {<<>>}
    ELSE UNION {{<<t>> \o f : t \in Trees(k), f \in Forests(m - k)} : k \in 1..m}

Inputs == {Scalar} \cup UNION {Trees(n) : n \in 1..MaxNodes}
ThreadInputs == UNION {Trees(n) : n \in 1..MaxThreadNodes}

(***************************************************************************)
(* The heap.  An address is a sequence of naturals: the path of an input   *)
(* object from the root (<<>> is the root, <<2, 1>> the first element of   *)
(* the second element), or <<0, n>> for the n-th call-local list.  A       *)
(* reference [type, id, addr] is what a variable or a list slot holds.     *)
(***************************************************************************)
RECURSIVE Sub(_, _), AllPaths(_, _)
Sub(t, p) == IF p = <<>> THEN t ELSE Sub(t.items[Head(p)], Tail(p))
AllPaths(t, p) ==
    {p} \cup UNION {AllPaths(t.items[i], Append(p, i)) : i \in 1..Len(t.items)}

Ref(t, p) == [type |-> t.type, id |-> t.id, addr |-> p]
HasItems(t) == t.type \in {"list", "tuple", "listsub"}
InputAddrs(t) == {p \in AllPaths(t, <<>>) : HasItems(Sub(t, p))}
\* The heap holding the objects of input t and nothing else.
Store(t) ==
    [p \in InputAddrs(t) |->
        [i \in 1..Len(Sub(t, p).items) |-> Ref(Sub(t, p).items[i], Append(p, i))]]

NoList == <<0, 0>>
NoExc == "NoExc"
NoResult == [kind |-> "none", val |-> ""]

VARIABLES
    sched,     \* how the callers run: "sequential" or "threads"
    tree,      \* the input as a nested value; never assigned (what the caller built)
    heap,      \* address -> contents of the list object at that address
    indent,    \* the indent argument of the top-level calls
    depthArg,  \* caller -> the depth argument of its top-level call
    stack,     \* caller -> its call stack of ast_dump frames, innermost last
    exc,       \* caller -> the exception propagating through its stack, or NoExc
    result,    \* caller -> what its top-level call returned or raised
    table,     \* the primitive: (node, indent) -> outcome, as far as it was called
    log,       \* caller -> the calls it made to the primitive, in order
    calls,     \* caller -> the addresses of the values ast_dump was invoked on, in order
    steps      \* caller -> the number of steps its call has taken

vars == <<sched, tree, heap, indent, depthArg, stack, exc, result, table, log, calls, steps>>

Top(c) == stack[c][Len(stack[c])]
Rest(c) == SubSeq(stack[c], 1, Len(stack[c]) - 1)
Done(c) == result[c].kind # "none"
\* Section 5 of the documentation: single-threaded and synchronous, so a call
\* starts when the one before it has ended; as threads, the callers' steps
\* interleave freely.
Turn(c) == sched = "threads" \/ \A d \in Callers : d < c => Done(d)
Running(c) == Turn(c) /\ stack[c] # <<>> /\ exc[c] = NoExc

(***************************************************************************)
(* The code, line by line.                                                 *)
(***************************************************************************)
\* line 5: the frame of a call ast_dump(v, ind, depth=d)
Frame(v, ind, d) ==
    [s |-> v, indent |-> ind, depth |-> d, pc |-> "test", l |-> NoList, it |-> 0]

\* A slip: the empty list is falsy, "if s and type(s) == list".
IsListTruthy(v) == v.type = "list" /\ heap[v.addr] # <<>>
\* A slip: isinstance(s, list), which a subclass instance satisfies.
IsListInstance(v) == v.type \in {"list", "listsub"}
\* line 6: type(s) == list
IsList(v) == v.type = "list"

\* line 7: l = []  -- a fresh list object, at the first local address that no
\* live frame holds (the object a returned frame held is garbage)
LiveLists ==
    UNION {{stack[c][k].l : k \in 1..Len(stack[c])} : c \in Callers} \ {NoList}
\* A slip: l = s, the local name bound to the input list itself.
NewListAddrAlias(c) == Top(c).s.addr
NewListAddr(c) ==
    <<0, CHOOSE n \in 1..(Cardinality(LiveLists) + 1) :
            /\ <<0, n>> \notin LiveLists
            /\ \A m \in 1..(n - 1) : <<0, m>> \in LiveLists>>
\* A slip: a list that outlives the call (a mutable default argument l=[]).
NewListKept(h, a) ==
    IF a \in DOMAIN h THEN h ELSE [x \in DOMAIN h \cup {a} |-> IF x = a THEN <<>> ELSE h[x]]
NewList(h, a) == [x \in DOMAIN h \cup {a} |-> IF x = a THEN <<>> ELSE h[x]]

\* line 8: for i in s  -- the list iterator: an index into s, compared with the
\* list's current length at every step
HasNext(fr, h) == fr.it < Len(h[fr.s.addr])
\* A slip: the elements taken from the end, "for i in reversed(s)".
NextItemReversed(fr, h) == h[fr.s.addr][Len(h[fr.s.addr]) - fr.it]
NextItem(fr, h) == h[fr.s.addr][fr.it + 1]
\* A slip: the iterator advances past an element.
NextIndexSkip(fr) == fr.it + 2
NextIndex(fr) == fr.it + 1

\* line 9: ast_dump(i, indent, depth=depth+1)
CalleeFrame(fr, v) == Frame(v, fr.indent, fr.depth + 1)
\* line 9: l.append(r)
ListAppend(h, a, r) == [h EXCEPT ![a] = Append(@, r)]

\* line 10: sep.join(l)
RECURSIVE Join(_, _)
Join(l, sep) ==
    IF l = <<>> THEN ""
    ELSE IF Len(l) = 1 THEN l[1]
    ELSE l[1] \o sep \o Join(Tail(l), sep)
\* A slip: the separator without its space.
ListTextComma(fr, h) == "[" \o Join(h[fr.l], ",") \o "]"
\* A slip: depth read as a limit on nesting.
ListTextDepth(fr, h) ==
    IF fr.depth > 2 THEN "[...]" ELSE "[" \o Join(h[fr.l], ", ") \o "]"
\* line 10: '[' + ', '.join(l) + ']'
ListText(fr, h) == "[" \o Join(h[fr.l], ", ") \o "]"

\* A slip: the indent is not passed on.
DumpArgsNoIndent(fr) == [node |-> fr.s, indent |-> "None"]
\* line 11: ast.dump(s, indent=indent)  -- what the primitive is called with
DumpArgs(fr) == [node |-> fr.s, indent |-> fr.indent]

\* A slip: the call wrapped in try/except, a placeholder returned.
OnRaiseSwallow(fr, e) == [handled |-> TRUE, exc |-> e, val |-> "<error>"]
\* lines 5-11 hold no try/except: a frame an exception passes through is
\* dropped and the exception goes on unchanged
OnRaise(fr, e) == [handled |-> FALSE, exc |-> e, val |-> ""]

(***************************************************************************)
(* The primitive ast.dump (the standard library's, not this repository's). *)
(* Its outcome depends on the node and the indent alone.                   *)
(***************************************************************************)
PrimKey(a) == [type |-> a.node.type, id |-> a.node.id, indent |-> a.indent]
\* The text of a successful rendering: one text per node and indent.
TypeText(k) ==
    CASE k.type = "AST" /\ k.id = 1 -> "Pass"
      [] k.type = "AST" -> "List"
      [] k.type = "int" -> "int"
      [] k.type = "tuple" -> "tuple"
      [] OTHER -> "sub"
Render(k) ==
    IF k.indent = "None" THEN TypeText(k) \o "(a=[], b=1)"
    ELSE TypeText(k) \o "(\n  a=[],\n  b=1)"
PrimOutcomes(k) ==
    {[ok |-> TRUE, val |-> Render(k)]} \cup {[ok |-> FALSE, val |-> e] : e \in PrimErrors}

(***************************************************************************)
(* The state machine.                                                      *)
(***************************************************************************)
Start(mode, inputs, indents, depths) ==
    /\ sched = mode
    /\ tree \in inputs
    /\ heap = Store(tree)
    /\ indent \in indents
    /\ depthArg \in depths
    /\ stack = [c \in Callers |-> <<>>]
    /\ exc = [c \in Callers |-> NoExc]
    /\ result = [c \in Callers |-> NoResult]
    /\ table = <<>>
    /\ log = [c \in Callers |-> <<>>]
    /\ calls = [c \in Callers |-> <<>>]
    /\ steps = [c \in Callers |-> 0]

Init == Start("sequential", Inputs, IndentArgs, DepthChoices)
\* As threads, every caller with the default indent and depth.
InitThreads == Start("threads", ThreadInputs, {"None"}, {[c \in Callers |-> 0]})

\* The innermost frame of caller c returns r: to the frame below it, which
\* appends r to its l (line 9), or to the caller.
Return(c, r) ==
    /\ stack' = [stack EXCEPT ![c] = Rest(c)]
    /\ IF Rest(c) = <<>>
       THEN /\ result' = [result EXCEPT ![c] = [kind |-> "return", val |-> r]]
            /\ heap' = heap
       ELSE /\ result' = result
            /\ heap' = ListAppend(heap, Rest(c)[Len(Rest(c))].l, r)

\* One more step of caller c's call.
Tick(c) == steps' = [steps EXCEPT ![c] = @ + 1]

\* A caller calls ast_dump(input, indent, depth).
Invoke(c) ==
    /\ Turn(c) /\ stack[c] = <<>> /\ ~Done(c)
    /\ Tick(c)
    /\ stack' = [stack EXCEPT ![c] = <<Frame(Ref(tree, <<>>), indent, depthArg[c])>>]
    /\ calls' = [calls EXCEPT ![c] = Append(@, <<>>)]
    /\ UNCHANGED <<sched, tree, heap, indent, depthArg, exc, result, table, log>>

\* line 6
TestList(c) ==
    /\ Running(c) /\ Top(c).pc = "test"
    /\ Tick(c)
    /\ stack' = [stack EXCEPT ![c][Len(stack[c])].pc =
                    IF IsList(Top(c).s) THEN "new" ELSE "dump"]
    /\ UNCHANGED <<sched, tree, heap, indent, depthArg, exc, result, table, log, calls>>

\* line 7
MakeList(c) ==
    /\ Running(c) /\ Top(c).pc = "new"
    /\ Tick(c)
    /\ LET a == NewListAddr(c) IN
        /\ heap' = NewList(heap, a)
        /\ stack' = [stack EXCEPT ![c][Len(stack[c])] = [@ EXCEPT !.l = a, !.pc = "for"]]
    /\ UNCHANGED <<sched, tree, indent, depthArg, exc, result, table, log, calls>>

\* lines 8-9: the iterator yields the next element and ast_dump is called on it
ForCall(c) ==
    /\ Running(c) /\ Top(c).pc = "for" /\ HasNext(Top(c), heap)
    /\ Tick(c)
    /\ LET fr == Top(c)
           v == NextItem(fr, heap) IN
        /\ stack' = [stack EXCEPT ![c] =
                        Append([@ EXCEPT ![Len(@)].it = NextIndex(fr)], CalleeFrame(fr, v))]
        /\ calls' = [calls EXCEPT ![c] = Append(@, v.addr)]
    /\ UNCHANGED <<sched, tree, heap, indent, depthArg, exc, result, table, log>>

\* lines 8, 10: the iterator is exhausted and the joined text is returned
ReturnJoin(c) ==
    /\ Running(c) /\ Top(c).pc = "for" /\ ~HasNext(Top(c), heap)
    /\ Tick(c)
    /\ Return(c, ListText(Top(c), heap))
    /\ UNCHANGED <<sched, tree, indent, depthArg, exc, table, log, calls>>

\* line 11: the primitive is called; it returns a text, which is returned, or raises
DumpLeaf(c) ==
    /\ Running(c) /\ Top(c).pc = "dump"
    /\ Tick(c)
    /\ LET a == DumpArgs(Top(c))
           k == PrimKey(a) IN
        /\ log' = [log EXCEPT ![c] = Append(@, a)]
        /\ \E o \in (IF k \in DOMAIN table THEN {table[k]} ELSE PrimOutcomes(k)) :
            /\ table' = (IF k \in DOMAIN table THEN table ELSE table @@ (k :> o))
            /\ IF o.ok
               THEN Return(c, o.val) /\ exc' = exc
               ELSE /\ exc' = [exc EXCEPT ![c] = o.val]
                    /\ UNCHANGED <<stack, result, heap>>
    /\ UNCHANGED <<sched, tree, indent, depthArg, calls>>

\* An exception leaves the innermost frame; out of the last frame it reaches the caller.
Unwind(c) ==
    /\ Turn(c) /\ stack[c] # <<>> /\ exc[c] # NoExc
    /\ Tick(c)
    /\ LET h == OnRaise(Top(c), exc[c]) IN
        IF h.handled
        THEN Return(c, h.val) /\ exc' = [exc EXCEPT ![c] = NoExc]
        ELSE /\ stack' = [stack EXCEPT ![c] = Rest(c)]
             /\ exc' = [exc EXCEPT ![c] = h.exc]
             /\ result' = IF Rest(c) = <<>>
                          THEN [result EXCEPT ![c] = [kind |-> "raise", val |-> h.exc]]
                          ELSE result
             /\ heap' = heap
    /\ UNCHANGED <<sched, tree, indent, depthArg, table, log, calls>>

Next ==
    \E c \in Callers :
        \/ Invoke(c)
        \/ TestList(c)
        \/ MakeList(c)
        \/ ForCall(c)
        \/ ReturnJoin(c)
        \/ DumpLeaf(c)
        \/ Unwind(c)

Spec == Init /\ [][Next]_vars

SpecThreads == InitThreads /\ [][Next]_vars

(***************************************************************************)
(* What the documentation says of ast_dump, stated over the input `tree`   *)
(* and the primitive's outcomes `table`, independently of the code above.  *)
(***************************************************************************)
Root == Ref(tree, <<>>)
RootCall == [node |-> Root, indent |-> indent]
\* The primitive's outcome for nested value t under the callers' indent.
KeyOf(t) == [type |-> t.type, id |-> t.id, indent |-> indent]
OutcomeOf(t) == table[KeyOf(t)]
AsResult(o) == [kind |-> IF o.ok THEN "return" ELSE "raise", val |-> o.val]

\* The text of Section 4.1: "[" + formatted elements joined by ", " + "]" for a
\* list, the primitive's text for anything else.
RECURSIVE Fmt(_), FmtFrom(_, _)
Fmt(t) ==
    IF t.type = "list" THEN "[" \o FmtFrom(t.items, 1) \o "]" ELSE OutcomeOf(t).val
FmtFrom(its, i) ==
    IF i > Len(its) THEN ""
    ELSE IF i = Len(its) THEN Fmt(its[i])
    ELSE Fmt(its[i]) \o ", " \o FmtFrom(its, i + 1)

\* The positions ast_dump is to be invoked on, depth first and left to right:
\* the root, and every element of an exact list that is itself such a position.
RECURSIVE Preorder(_, _), PreorderFrom(_, _, _)
Preorder(t, p) ==
    <<p>> \o (IF t.type = "list" THEN PreorderFrom(t, p, 1) ELSE <<>>)
PreorderFrom(t, p, i) ==
    IF i > Len(t.items) THEN <<>>
    ELSE Preorder(t.items[i], Append(p, i)) \o PreorderFrom(t, p, i + 1)
Positions == Preorder(tree, <<>>)
IsLeafAt(p) == Sub(tree, p).type # "list"
LeafOrder == SelectSeq(Positions, IsLeafAt)

LogPaths(c) == [i \in 1..Len(log[c]) |-> log[c][i].node.addr]
LogOutcome(c, i) == table[PrimKey(log[c][i])]
Frames(c) == {stack[c][k] : k \in 1..Len(stack[c])}
NoRepeat(q) == \A i, j \in 1..Len(q) : q[i] = q[j] => i = j

\* C1: a list input [e1, ..., en] gives "[" + text(e1) + ", " + ... + ", " +
\* text(en) + "]", the elements in their order and each formatted by the same
\* operation with the caller's indent, to any nesting depth.
C1_ListText ==
    \A c \in Callers :
        /\ \A fr \in Frames(c) : fr.indent = indent
        /\ (tree.type = "list" /\ result[c].kind = "return") =>
                result[c].val = Fmt(tree)
\* [[a], b] was formatted.
C1_Witness ==
    /\ result[1].kind = "return"
    /\ tree.type = "list" /\ Len(tree.items) = 2
    /\ tree.items[1].type = "list" /\ Len(tree.items[1].items) = 1
    /\ tree.items[1].items[1] # tree.items[2]
    /\ tree.items[2].type # "list"

\* C2: for a single tree node the primitive is called once, with that node and the
\* caller's indent, and the text it returns is returned verbatim.
C2_LeafVerbatim ==
    \A c \in Callers :
        (tree.type = "AST" /\ Done(c)) =>
            /\ log[c] = <<RootCall>>
            /\ OutcomeOf(tree).ok =>
                    result[c] = [kind |-> "return", val |-> OutcomeOf(tree).val]
\* A single node was rendered with an indent other than the default.
C2_Witness ==
    tree.type = "AST" /\ indent # "None" /\ result[1].kind = "return"

\* C3: the depth argument never affects the outcome: two calls on the same node
\* with the same indent and different depth values end the same way, with the
\* same text or the same failure, after the same calls to the primitive.
C3_DepthIgnored ==
    (Done(1) /\ Done(2) /\ depthArg[1] # depthArg[2]) =>
        result[1] = result[2] /\ log[1] = log[2]
\* A nested list was formatted at two different depth values.
C3_Witness ==
    /\ depthArg[1] # depthArg[2]
    /\ result[1].kind = "return" /\ result[2].kind = "return"
    /\ tree.type = "list" /\ Len(tree.items) >= 1 /\ tree.items[1].type = "list"

\* C4: a failure of the primitive, on the top-level node or on a leaf at any depth,
\* ends the whole call with that same failure: it is the last thing the call
\* did with the primitive, nothing is returned, and the error is not replaced.
C4_FailurePropagates ==
    \A c \in Callers : \A i \in 1..Len(log[c]) :
        ~LogOutcome(c, i).ok =>
            /\ i = Len(log[c])
            /\ exc[c] = LogOutcome(c, i).val
            /\ result[c].kind # "return"
            /\ Done(c) => result[c] = [kind |-> "raise", val |-> LogOutcome(c, i).val]
\* The primitive failed on a leaf two lists deep and the call ended with it.
C4_Witness ==
    /\ result[1].kind = "raise"
    /\ Len(log[1][Len(log[1])].node.addr) = 2

\* C5: an empty list gives "[]", at the top level and nested inside another list,
\* and the primitive is never called on it (nor on any list).
EmptyList(v) == v.type = "list" /\ heap[v.addr] = <<>>
C5_EmptyList ==
    \A c \in Callers :
        /\ (tree = ListVal(<<>>) /\ Done(c)) =>
                result[c] = [kind |-> "return", val |-> "[]"] /\ log[c] = <<>>
        /\ \A i \in 1..Len(log[c]) : log[c][i].node.type # "list"
        /\ \A fr \in Frames(c) :
                (fr = Top(c) /\ fr.pc = "for" /\ exc[c] = NoExc) =>
                    \A j \in 1..fr.it :
                        EmptyList(heap[fr.s.addr][j]) => heap[fr.l][j] = "[]"
\* A list holding an empty list and another element was formatted.
C5_Witness ==
    /\ result[1].kind = "return"
    /\ tree.type = "list" /\ Len(tree.items) = 2
    /\ tree.items[1] = ListVal(<<>>)

\* C6: two calls with the same node, indent and depth yield the same outcome,
\* whatever call came before: a call's local list starts empty and holds one
\* text per element taken so far, nothing left by an earlier call.
C6_Deterministic ==
    /\ (Done(1) /\ Done(2) /\ depthArg[1] = depthArg[2]) => result[1] = result[2]
    /\ \A c \in Callers : \A fr \in Frames(c) :
            fr.pc = "for" => Len(heap[fr.l]) <= fr.it
\* A nested list was formatted twice with the same arguments.
C6_Witness ==
    /\ depthArg[1] = depthArg[2]
    /\ result[1].kind = "return" /\ result[2].kind = "return"
    /\ tree.type = "list" /\ Len(tree.items) >= 1 /\ tree.items[1].type = "list"

\* The outcome of a call run alone, by the documentation: the first failure met
\* going through the elements in order, or else the text.
Ok(txt) == [ok |-> TRUE, val |-> txt]
RECURSIVE Den(_), DenFrom(_, _)
Den(t) ==
    IF t.type = "list"
    THEN LET r == DenFrom(t.items, 1) IN
         IF r.ok THEN Ok("[" \o r.val \o "]") ELSE r
    ELSE OutcomeOf(t)
DenFrom(its, i) ==
    IF i > Len(its) THEN Ok("")
    ELSE LET h == Den(its[i]) IN
         IF ~h.ok \/ i = Len(its) THEN h
         ELSE LET r == DenFrom(its, i + 1) IN
              IF r.ok THEN Ok(h.val \o ", " \o r.val) ELSE r

FramePositions == UNION {{<<c, k>> : k \in 1..Len(stack[c])} : c \in Callers}
\* C7: no side effects: every list of the input keeps its length, elements and
\* order at every step of every call, the only objects built are lists local
\* to one call each, and calls interleaved on the same input each end as a
\* call run alone does.
C7_NoSideEffects ==
    /\ LET st == Store(tree) IN
        /\ \A a \in DOMAIN st : a \in DOMAIN heap /\ heap[a] = st[a]
        /\ \A a \in DOMAIN heap \ DOMAIN st : a[1] = 0
    /\ \A x, y \in FramePositions :
            (x # y /\ stack[x[1]][x[2]].l = stack[y[1]][y[2]].l)
            => stack[x[1]][x[2]].l = NoList
    /\ \A c \in Callers : Done(c) => result[c] = AsResult(Den(tree))
\* One call has ended while the other, begun before that, is inside a nested list.
C7_Witness ==
    /\ sched = "threads"
    /\ Done(2) /\ ~Done(1)
    /\ Len(stack[1]) >= 2 /\ stack[1][1].it >= 1 /\ Top(1).pc = "for"

\* C8 as stated: every call that has ended has invoked ast_dump exactly once per
\* position and the primitive exactly once per leaf.
C8_ExactlyOncePerLeaf ==
    \A c \in Callers :
        Done(c) => Len(calls[c]) = Len(Positions) /\ Len(log[c]) = Len(LeafOrder)

\* C8, amended: a call on a finite input ends, after work proportional to the size
\* of the tree: it is never stuck before its end, takes at most four steps per
\* position, and visits no position twice; it invokes ast_dump at most once
\* per position and the primitive at most once per leaf, and exactly once
\* each when it returns normally (a failure of the primitive ends the
\* traversal early).
C8_BoundedWork ==
    /\ (\E c \in Callers : ~Done(c)) => ENABLED Next
    /\ LET pos == Positions
           leaves == SelectSeq(pos, IsLeafAt) IN
        \A c \in Callers :
            /\ steps[c] <= 4 * Len(pos)
            /\ NoRepeat(calls[c]) /\ NoRepeat(LogPaths(c))
            /\ result[c].kind = "return" =>
                /\ Len(calls[c]) = Len(pos)
                /\ {calls[c][i] : i \in 1..Len(calls[c])} = {pos[i] : i \in 1..Len(pos)}
                /\ Len(log[c]) = Len(leaves)
                /\ {LogPaths(c)[i] : i \in 1..Len(log[c])} =
                        {leaves[i] : i \in 1..Len(leaves)}
\* A call on an input of four positions has ended.
C8_Witness ==
    result[1].kind = "return" /\ Len(calls[1]) >= 4 /\ Len(log[1]) >= 2

\* C9: only a value whose type is exactly list is iterated and bracketed; any other
\* value, a tuple or a list subclass instance or a scalar, is handed as it is
\* to the primitive, whose outcome is the call's outcome.
C9_ExactListOnly ==
    \A c \in Callers :
        /\ \A fr \in Frames(c) :
            /\ fr.pc \in {"new", "for"} => fr.s.type = "list"
            /\ fr.pc = "dump" => fr.s.type # "list"
        /\ \A i \in 1..Len(calls[c]) : \A n \in 0..(Len(calls[c][i]) - 1) :
                Sub(tree, SubSeq(calls[c][i], 1, n)).type = "list"
        /\ (tree.type # "list" /\ Done(c)) =>
                log[c] = <<RootCall>> /\ result[c] = AsResult(OutcomeOf(tree))
\* A list subclass instance inside a list went to the primitive.
C9_Witness ==
    /\ Done(1)
    /\ tree.type = "list" /\ Len(tree.items) = 2
    /\ tree.items[1].type = "listsub" /\ tree.items[2].type = "tuple"
    /\ Len(log[1]) = 2

\* C10: within a call the primitive is invoked on the leaves depth first and left
\* to right; a failure stops the traversal, so every call before the last
\* succeeded, no later leaf is passed to the primitive, and the failure
\* reported is the first one in that order.
C10_Order ==
    LET leaves == LeafOrder IN
    \A c \in Callers :
        /\ Len(log[c]) <= Len(leaves)
        /\ LogPaths(c) = SubSeq(leaves, 1, Len(log[c]))
        /\ \A i \in 1..(Len(log[c]) - 1) : LogOutcome(c, i).ok
        /\ result[c].kind = "return" => Len(log[c]) = Len(leaves)
        /\ result[c].kind = "raise" =>
            /\ Len(log[c]) >= 1
            /\ ~LogOutcome(c, Len(log[c])).ok
            /\ result[c].val = LogOutcome(c, Len(log[c])).val
\* The primitive failed on the second of three leaves: the third was never passed to it.
C10_Witness ==
    /\ result[1].kind = "raise"
    /\ Len(log[1]) = 2 /\ log[1][2].node.addr = <<2>>
    /\ Len(LeafOrder) = 3
====
